---- MODULE Spec2Model ----
(***************************************************************************)
(* State-machine model of the similarity / recommendation code:            *)
(*   - TP/algorithms: the sequential and concurrent similarity-matrix      *)
(*     builders. JaccardConcurrent and JaccardWeightedConcurrent are       *)
(*     modelled goroutine by goroutine; CosineConcurrent and               *)
(*     PearsonConcurrent are the same code around another metric.          *)
(*   - TF/internal/ml: RecommendItemBased, RecommendItemBasedParallel,     *)
(*     RecommendUserBased and their helpers, with the Jaccard metric.      *)
(*   - the seven metrics and topNneighborsFromScores, each called on its   *)
(*     own over all small inputs.                                          *)
(* float64 values are modelled as exact rationals <<num, den>> in lowest   *)
(* terms, den > 0, so equality of scores is equality of tuples; the value  *)
(* of a metric that takes square roots (Cosine, Pearson) is kept exactly   *)
(* as <<sign, square>>. A panic (index or slice bounds out of range, send  *)
(* on a closed channel) sets panicked and stops every goroutine.           *)
(***************************************************************************)
EXTENDS Integers, Sequences, FiniteSets, TLC

\* ------------------------------------------------------------------ bounds
\* largest number of entities handed to a matrix builder
MaxN == 3
\* largest numWorkers handed to a concurrent matrix builder
MaxWorkers == 2

\* ------------------------------------------------------- rational numbers
RECURSIVE GCD(_, _)
GCD(a, b) == IF b = 0 THEN a ELSE GCD(b, a % b)

AbsInt(a) == IF a < 0 THEN -a ELSE a

\* the rational n/d (d # 0) in lowest terms with a positive denominator
Rat(n, d) ==
  LET g == GCD(AbsInt(n), AbsInt(d))
      s == IF d < 0 THEN -1 ELSE 1
  IN  <<(s * n) \div g, (s * d) \div g>>

Zero == <<0, 1>>
One == <<1, 1>>

RatAdd(x, y) == Rat(x[1] * y[2] + y[1] * x[2], x[2] * y[2])
RatMul(x, y) == Rat(x[1] * y[1], x[2] * y[2])
RatDiv(x, y) == Rat(x[1] * y[2], x[2] * y[1])
RatLess(x, y) == x[1] * y[2] < y[1] * x[2]
RatSub(x, y) == Rat(x[1] * y[2] - y[1] * x[2], x[2] * y[2])

\* sum of the rationals f[k] over the keys in S
RECURSIVE RatSum(_, _)
RatSum(S, f) ==
  IF S = {} THEN Zero
  ELSE LET k == CHOOSE x \in S : TRUE IN RatAdd(f[k], RatSum(S \ {k}, f))

\* ---- the values of the metrics that take a square root
\* the real num / (math.Sqrt(x) * math.Sqrt(y)) = num / math.Sqrt(x * y) for
\* rationals num and x * y = rad > 0, kept exactly as <<its sign, its square>>:
\* two such reals are equal exactly when their pairs are
Sign(x) == IF x[1] > 0 THEN 1 ELSE IF x[1] < 0 THEN -1 ELSE 0
OverSqrt(num, rad) == <<Sign(num), RatDiv(RatMul(num, num), rad)>>

\* the float64 values 0 and 1 in that form
RootZero == <<0, Zero>>
RootOne == <<1, One>>

\* ---------------------------------------------------- TP/algorithms: data
\* User.Games: appID -> GameInteraction{PlaytimeNorm, Rating}
GI(p, r) == [PlaytimeNorm |-> p, Rating |-> r]

UserA == (1 :> GI(1, 1))
UserB == (1 :> GI(1, 0)) @@ (2 :> GI(0, 1))
UserC == (2 :> GI(1, 1)) @@ (3 :> GI(1, 0))

\* the users an entity list is drawn from
UserPool == {UserA, UserB, UserC}

\* the four builders are one code around four metrics; two are modelled exactly
Builders == {"Jaccard", "JaccardWeighted"}

\* min(a, b int)
min(a, b) == IF a < b THEN a ELSE b

\* sum of f[k] over the keys in S
RECURSIVE SumOver(_, _)
SumOver(S, f) ==
  IF S = {} THEN 0
  ELSE LET k == CHOOSE x \in S : TRUE IN f[k] + SumOver(S \ {k}, f)

\* jaccardIndex(u1, u2 User)
jaccardIndex(u1, u2) ==
  LET intersection == Cardinality({a \in DOMAIN u1 : a \in DOMAIN u2})
      union == Cardinality(DOMAIN u1) + Cardinality(DOMAIN u2) - intersection
  IN  IF union = 0 THEN Zero ELSE Rat(intersection, union)

\* JaccardWeighted(u1, u2 User)
JaccardWeighted(u1, u2) ==
  LET allGames == DOMAIN u1 \cup DOMAIN u2
      val1 == [a \in allGames |->
                 IF a \in DOMAIN u1 THEN u1[a].PlaytimeNorm + u1[a].Rating ELSE 0]
      val2 == [a \in allGames |->
                 IF a \in DOMAIN u2 THEN u2[a].PlaytimeNorm + u2[a].Rating ELSE 0]
      lo == [a \in allGames |-> IF val1[a] < val2[a] THEN val1[a] ELSE val2[a]]
      hi == [a \in allGames |-> IF val1[a] < val2[a] THEN val2[a] ELSE val1[a]]
      minSum == SumOver(allGames, lo)
      maxSum == SumOver(allGames, hi)
  IN  IF maxSum = 0 THEN Zero ELSE Rat(minSum, maxSum)

\* the sum over the games in S of the two products p*p' and r*r' of f and g
SumProducts(S, f, g) ==
  SumOver(S, [a \in S |-> f[a].PlaytimeNorm * g[a].PlaytimeNorm + f[a].Rating * g[a].Rating])

\* cosineSimilarity(u1, u2 User)
cosineSimilarity(u1, u2) ==
  LET both == {a \in DOMAIN u1 : a \in DOMAIN u2}
      dotProduct == SumProducts(both, u1, u2)
      norm1 == SumProducts(DOMAIN u1, u1, u1)
      norm2 == SumProducts(DOMAIN u2, u2, u2)
  IN  IF norm1 = 0 \/ norm2 = 0 THEN RootZero
      ELSE OverSqrt(Rat(dotProduct, 1), Rat(norm1 * norm2, 1))

\* mutant of pearsonCorrelation: one game in common is enough (len(commonGames) < 1)
pearsonCorrelation_OneCommon(u1, u2) ==
  LET commonGames == {a \in DOMAIN u1 : a \in DOMAIN u2}
      cnt == 2 * Cardinality(commonGames)
      mean1 == Rat(SumOver(commonGames, [a \in commonGames |-> u1[a].PlaytimeNorm + u1[a].Rating]), cnt)
      mean2 == Rat(SumOver(commonGames, [a \in commonGames |-> u2[a].PlaytimeNorm + u2[a].Rating]), cnt)
      d1 == [a \in commonGames |-> [p |-> RatSub(Rat(u1[a].PlaytimeNorm, 1), mean1),
                                    r |-> RatSub(Rat(u1[a].Rating, 1), mean1)]]
      d2 == [a \in commonGames |-> [p |-> RatSub(Rat(u2[a].PlaytimeNorm, 1), mean2),
                                    r |-> RatSub(Rat(u2[a].Rating, 1), mean2)]]
      Dot(f, g) == RatSum(commonGames, [a \in commonGames |->
                            RatAdd(RatMul(f[a].p, g[a].p), RatMul(f[a].r, g[a].r))])
  IN  IF Cardinality(commonGames) < 1 THEN RootZero
      ELSE IF Dot(d1, d1) = Zero \/ Dot(d2, d2) = Zero THEN RootZero
      ELSE OverSqrt(Dot(d1, d2), RatMul(Dot(d1, d1), Dot(d2, d2)))

\* pearsonCorrelation(u1, u2 User): values1 and values2 hold, for every common
\* game, PlaytimeNorm and Rating; n = len(values1) is never 0 past the first test,
\* and math.Sqrt(denom1 * denom2) is not 0 when neither factor is
pearsonCorrelation(u1, u2) ==
  LET commonGames == {a \in DOMAIN u1 : a \in DOMAIN u2}
      cnt == 2 * Cardinality(commonGames)
      mean1 == Rat(SumOver(commonGames, [a \in commonGames |-> u1[a].PlaytimeNorm + u1[a].Rating]), cnt)
      mean2 == Rat(SumOver(commonGames, [a \in commonGames |-> u2[a].PlaytimeNorm + u2[a].Rating]), cnt)
      diff1 == [a \in commonGames |-> [p |-> RatSub(Rat(u1[a].PlaytimeNorm, 1), mean1),
                                       r |-> RatSub(Rat(u1[a].Rating, 1), mean1)]]
      diff2 == [a \in commonGames |-> [p |-> RatSub(Rat(u2[a].PlaytimeNorm, 1), mean2),
                                       r |-> RatSub(Rat(u2[a].Rating, 1), mean2)]]
      Dot(f, g) == RatSum(commonGames, [a \in commonGames |->
                            RatAdd(RatMul(f[a].p, g[a].p), RatMul(f[a].r, g[a].r))])
      numerator == Dot(diff1, diff2)
      denom1 == Dot(diff1, diff1)
      denom2 == Dot(diff2, diff2)
  IN  IF Cardinality(commonGames) < 2 THEN RootZero
      ELSE IF denom1 = Zero \/ denom2 = Zero THEN RootZero
      ELSE OverSqrt(numerator, RatMul(denom1, denom2))

\* the metric a builder calls on (users[i], users[j])
Metric(b, u1, u2) ==
  IF b = "Jaccard" THEN jaccardIndex(u1, u2) ELSE JaccardWeighted(u1, u2)

\* make([][]float64, n) with every row make([]float64, n): all zero
ZeroMatrix(len) == [i \in 0..(len - 1) |-> [j \in 0..(len - 1) |-> Zero]]

\* m with m[i][j] = v
SetEntry(m, i, j, v) == [m EXCEPT ![i] = [m[i] EXCEPT ![j] = v]]

\* mutant of DiagMatrix: the rows are made and the diagonal is left at zero
DiagMatrix_NoDiagonal(len) == ZeroMatrix(len)

\* the loop "for i := range similarity" of the concurrent builders:
\* fresh rows with similarity[i][i] = 1.0
DiagMatrix(len) ==
  [i \in 0..(len - 1) |-> [j \in 0..(len - 1) |-> IF i = j THEN One ELSE Zero]]

\* the inner loop of a sequential builder from column j on, for row i
RECURSIVE SeqInner(_, _, _, _, _)
SeqInner(b, us, m, i, j) ==
  IF j >= Len(us) THEN m
  ELSE LET sim == Metric(b, us[i + 1], us[j + 1])
       IN  SeqInner(b, us, SetEntry(SetEntry(m, i, j, sim), j, i, sim), i, j + 1)

\* the outer loop of a sequential builder from row i on
RECURSIVE SeqOuter(_, _, _, _)
SeqOuter(b, us, m, i) ==
  IF i >= Len(us) THEN m
  ELSE SeqOuter(b, us, SeqInner(b, us, SetEntry(m, i, i, One), i, i + 1), i + 1)

\* JaccardSequential / JaccardWeightedSequential (CosineSequential, PearsonSequential)
Sequential(b, us) == SeqOuter(b, us, ZeroMatrix(Len(us)), 0)

\* ------------------------------------------------ TF/internal/ml: helpers
\* the permutations of a finite set, as sequences: the orders in which a
\* "for k := range m" can visit the keys of a map
RECURSIVE Perms(_)
Perms(S) ==
  IF S = {} THEN {<<>>}
  ELSE UNION {{<<x>> \o p : p \in Perms(S \ {x})} : x \in S}

\* the enumerated SimMetric values whose function is modelled exactly
SimMetrics == {"JaccardSim"}

\* mutant of Jaccard: the union is counted as len(a) + len(b), shared keys twice
Jaccard_UnionCountsTwice(a, b) ==
  IF Cardinality(DOMAIN a) = 0 /\ Cardinality(DOMAIN b) = 0 THEN Zero
  ELSE LET inter == Cardinality({k \in DOMAIN a : k \in DOMAIN b})
       IN  Rat(inter, Cardinality(DOMAIN a) + Cardinality(DOMAIN b))

\* Jaccard(a, b map[int]float64)
Jaccard(a, b) ==
  IF Cardinality(DOMAIN a) = 0 /\ Cardinality(DOMAIN b) = 0 THEN Zero
  ELSE LET inter == Cardinality({k \in DOMAIN a : k \in DOMAIN b})
           union == DOMAIN a \cup DOMAIN b
       IN  IF Cardinality(union) = 0 THEN Zero ELSE Rat(inter, Cardinality(union))

\* mutant of Cosine: the square roots are missing (dot / (suma * sumb))
Cosine_NoSqrt(a, b) ==
  LET both == {k \in DOMAIN a : k \in DOMAIN b}
      dot == RatSum(both, [k \in both |-> RatMul(a[k], b[k])])
      suma == RatSum(DOMAIN a, [k \in DOMAIN a |-> RatMul(a[k], a[k])])
      sumb == RatSum(DOMAIN b, [k \in DOMAIN b |-> RatMul(b[k], b[k])])
  IN  IF suma = Zero \/ sumb = Zero THEN RootZero
      ELSE OverSqrt(dot, RatMul(RatMul(suma, sumb), RatMul(suma, sumb)))

\* Cosine(a, b map[int]float64)
Cosine(a, b) ==
  LET both == {k \in DOMAIN a : k \in DOMAIN b}
      dot == RatSum(both, [k \in both |-> RatMul(a[k], b[k])])
      suma == RatSum(DOMAIN a, [k \in DOMAIN a |-> RatMul(a[k], a[k])])
      sumb == RatSum(DOMAIN b, [k \in DOMAIN b |-> RatMul(b[k], b[k])])
  IN  IF suma = Zero \/ sumb = Zero THEN RootZero
      ELSE OverSqrt(dot, RatMul(suma, sumb))

\* Pearson(a, b map[int]float64)
Pearson(a, b) ==
  LET both == {k \in DOMAIN a : k \in DOMAIN b}
      common == Cardinality(both)
      sumA == RatSum(both, [k \in both |-> a[k]])
      sumB == RatSum(both, [k \in both |-> b[k]])
      meanA == RatDiv(sumA, Rat(common, 1))
      meanB == RatDiv(sumB, Rat(common, 1))
      da == [k \in both |-> RatSub(a[k], meanA)]
      db == [k \in both |-> RatSub(b[k], meanB)]
      num == RatSum(both, [k \in both |-> RatMul(da[k], db[k])])
      denA == RatSum(both, [k \in both |-> RatMul(da[k], da[k])])
      denB == RatSum(both, [k \in both |-> RatMul(db[k], db[k])])
  IN  IF common < 2 THEN RootZero
      ELSE IF denA = Zero \/ denB = Zero THEN RootZero
      ELSE OverSqrt(num, RatMul(denA, denB))

\* simBetween(a, b, metric), for the metrics of SimMetrics
simBetween(a, b, metric) == Jaccard(a, b)

\* abs(a float64)
abs(a) == IF RatLess(a, Zero) THEN <<-a[1], a[2]>> ELSE a

\* BuildItemIndex(ds): item -> (user -> rating)
BuildItemIndex(ur) ==
  LET items == UNION {DOMAIN ur[u] : u \in DOMAIN ur}
  IN  [itm \in items |->
         [u \in {x \in DOMAIN ur : itm \in DOMAIN ur[x]} |-> ur[u][itm]]]

\* ---- container/heap on a minHeap; h[i + 1] is Go's h[i]
\* mutant of Less: the comparison of a max-heap (h[i].score > h[j].score)
Less_MaxHeap(h, i, j) == RatLess(h[j + 1].score, h[i + 1].score)

\* minHeap.Less(i, j)
Less(h, i, j) == RatLess(h[i + 1].score, h[j + 1].score)

\* minHeap.Swap(i, j)
Swap(h, i, j) == [h EXCEPT ![i + 1] = h[j + 1], ![j + 1] = h[i + 1]]

\* heap.up(h, j); Go's (j - 1) / 2 truncates towards zero
RECURSIVE up(_, _)
up(h, j) ==
  LET i == IF j = 0 THEN 0 ELSE (j - 1) \div 2
  IN  IF i = j \/ ~Less(h, j, i) THEN h ELSE up(Swap(h, i, j), i)

\* heap.down(h, i, len)
RECURSIVE down(_, _, _)
down(h, i, len) ==
  LET j1 == 2 * i + 1
  IN  IF j1 >= len \/ j1 < 0 THEN h
      ELSE LET j == IF j1 + 1 < len /\ Less(h, j1 + 1, j1) THEN j1 + 1 ELSE j1
           IN  IF ~Less(h, j, i) THEN h ELSE down(Swap(h, i, j), j, len)

\* heap.Push(h, x): minHeap.Push appends, then up
heapPush(h, x) == up(Append(h, x), Len(h))

\* heap.Pop(h): <<the heap left, the element popped>>
heapPop(h) ==
  LET last == Len(h) - 1
      h2 == down(Swap(h, 0, last), 0, last)
  IN  <<SubSeq(h2, 1, last), h2[last + 1]>>

\* the loop "for id, sc := range scores" of topNneighborsFromScores from position
\* k of the visiting order on: the heap it leaves, and whether (*h)[0] was read
\* on an empty heap (index out of range: a panic)
RECURSIVE topNLoop(_, _, _, _, _)
topNLoop(h, scores, cap, order, k) ==
  IF k > Len(order) THEN [panic |-> FALSE, heap |-> h]
  ELSE LET nb == [id |-> order[k], score |-> scores[order[k]]]
       IN  IF Len(h) < cap THEN topNLoop(heapPush(h, nb), scores, cap, order, k + 1)
           ELSE IF Len(h) = 0 THEN [panic |-> TRUE, heap |-> h]
           ELSE IF RatLess(h[1].score, nb.score)
                THEN topNLoop(heapPush(heapPop(h)[1], nb), scores, cap, order, k + 1)
                ELSE topNLoop(h, scores, cap, order, k + 1)

\* the loop "for i := len(res) - 1; i >= 0; i-- { res[i] = heap.Pop(h) }":
\* the heap popped to the end, the last popped first
RECURSIVE drain(_)
drain(h) ==
  IF h = <<>> THEN <<>> ELSE Append(drain(heapPop(h)[1]), heapPop(h)[2])

\* topNneighborsFromScores(scores, n) when the map is visited in `order`:
\* [panic |-> it panicked, list |-> the neighbours it returns otherwise]
topNneighborsFromScores(scores, cap, order) ==
  LET r == topNLoop(<<>>, scores, cap, order, 1)
  IN  [panic |-> r.panic, list |-> IF r.panic THEN <<>> ELSE drain(r.heap)]

\* sum over a list of neighbours of nb.score * r: the final num
RECURSIVE NumOf(_, _)
NumOf(neighbors, ratings) ==
  IF neighbors = <<>> THEN Zero
  ELSE RatAdd(NumOf(Tail(neighbors), ratings),
              RatMul(Head(neighbors).score, ratings[Head(neighbors).id]))

\* sum over a list of neighbours of abs(nb.score): the final den
RECURSIVE DenOf(_)
DenOf(neighbors) ==
  IF neighbors = <<>> THEN Zero
  ELSE RatAdd(DenOf(Tail(neighbors)), abs(Head(neighbors).score))

\* mutant of Predict: the test of den is missing; 0.0 / 0.0 is NaN, written <<0, 0>>
Predict_Unguarded(neighbors, ratings) ==
  IF DenOf(neighbors) = Zero THEN <<0, 0>>
  ELSE RatDiv(NumOf(neighbors, ratings), DenOf(neighbors))

\* the weighted average of both item-based recommenders: num / den, 0 when den is 0
Predict(neighbors, ratings) ==
  IF DenOf(neighbors) = Zero THEN Zero
  ELSE RatDiv(NumOf(neighbors, ratings), DenOf(neighbors))

\* the test "if den != 0" (scoreItem: the negation of "if den == 0"): the branch
\* that divides is taken
Divides(neighbors) == DenOf(neighbors) # Zero

\* no weighted average has been computed yet
NoAvg == [item |-> 0, den |-> Zero, divided |-> FALSE]

\* what the weighted average of candidate item over neighbors leaves behind: the
\* final den and whether num / den was evaluated
AvgOf(item, neighbors) ==
  [item |-> item, den |-> DenOf(neighbors), divided |-> Divides(neighbors)]

\* simScores of a candidate itemV: similarity of itemV to every item the user rated
SimScores(userRatings, itemIndex, itemV, metric) ==
  [itemU \in DOMAIN userRatings |->
     simBetween(itemIndex[itemU], itemIndex[itemV], metric)]

\* the neighbours as a list in the visiting order (the "convertir todos" branch)
AllNeighbors(scores, order) ==
  [k \in 1..Len(order) |-> [id |-> order[k], score |-> scores[order[k]]]]

\* scoreItem(ds, userRatings, itemIndex, itemV, metric, neighborK):
\* [panic |-> it panicked, val |-> the score it returns otherwise]
scoreItem(userRatings, itemIndex, itemV, metric, neighborK, order) ==
  LET simScores == SimScores(userRatings, itemIndex, itemV, metric)
      neighbors == topNneighborsFromScores(simScores, neighborK, order)
  IN  [panic |-> neighbors.panic,
       val |-> IF neighbors.panic THEN Zero ELSE Predict(neighbors.list, userRatings)]

\* the neighbours RecommendItemBased's loop body chooses for candidate itemV
seqNeighbors(userRatings, itemIndex, itemV, metric, neighborK, order) ==
  LET simScores == SimScores(userRatings, itemIndex, itemV, metric)
  IN  IF neighborK > 0
      THEN topNneighborsFromScores(simScores, neighborK, order).list
      ELSE AllNeighbors(simScores, order)

\* the body of RecommendItemBased's loop over the candidates: scores[itemV]
seqScoreItem(userRatings, itemIndex, itemV, metric, neighborK, order) ==
  Predict(seqNeighbors(userRatings, itemIndex, itemV, metric, neighborK, order),
          userRatings)

\* the lists sort.Slice can leave for a score map: every order of its entries
\* that is non-increasing in Score
SortedLists(scores) ==
  {[k \in 1..Len(p) |-> [MovieID |-> p[k], Score |-> scores[p[k]]]] :
     p \in {q \in Perms(DOMAIN scores) :
              \A k \in 1..(Len(q) - 1) : ~RatLess(scores[q[k]], scores[q[k + 1]])}}

\* topKFromMap(scores, k): the lists it can return
topKFromMap(scores, k) ==
  {IF Len(top) > k THEN SubSeq(top, 1, k) ELSE top : top \in SortedLists(scores)}

\* ------------------------------------------- the concurrent matrix builder
VARIABLES
  builder,       \* which builder is called (its metric)
  users,         \* the entity list, a sequence; users[i + 1] is Go's users[i]
  numWorkers,    \* the numWorkers argument
  similarity,    \* the matrix being built
  jobs,          \* the buffered content of the jobs channel
  jobsClosed,    \* close(jobs) has run
  results,       \* the buffered content of the results channel
  resultsClosed, \* close(results) has run
  wg,            \* the WaitGroup counter
  mainpc,        \* position of the calling goroutine (allocation, spawning, collector)
  spawned,       \* the loop variable w of "for w := 0; w < numWorkers; w++"
  res,           \* the collector's loop variable res
  mu,            \* the collector's mutex is held
  wpc,           \* position of each worker goroutine
  wres,          \* the result a worker has computed and not yet sent
  ppc,           \* position of the producer goroutine
  prodI, prodJ,  \* the producer's loop variables i, j
  cpc,           \* position of the goroutine that closes results
  panicked,      \* a goroutine panicked (the process dies)
  sent,          \* history: how often job{i,j} was sent on jobs
  taken,         \* history: the workers that received job{i,j}, in order
  applied,       \* history: how often result{i,j} was written to the matrix
  writers        \* history: the goroutines that wrote the matrix

mvars == <<builder, users, numWorkers, similarity, jobs, jobsClosed, results,
           resultsClosed, wg, mainpc, spawned, res, mu, wpc, wres, ppc, prodI,
           prodJ, cpc, sent, taken, applied, writers>>

\* the state of a recommender call
VARIABLES
  call,        \* the function called: ItemBased, ItemBasedParallel or UserBased
  ds,          \* ds.UserRatings: user -> (item -> rating)
  user,        \* the target user id
  topK,        \* the topK argument
  metric,      \* the metric argument
  neighborK,   \* the neighborK argument
  workers,     \* the workers argument (RecommendItemBasedParallel)
  rpc,         \* position of the calling goroutine
  candidates,  \* the candidates slice
  cidx,        \* the caller's loop index (over candidates, or w of the spawn loop)
  scores,      \* the scores map
  result,      \* the returned slice
  userSims,    \* RecommendUserBased: the userSims map
  neighbors,   \* RecommendUserBased: the selected neighbours
  gpc,         \* position of each goroutine of RecommendItemBasedParallel
  gslice,      \* each goroutine's slice argument
  gpos,        \* each goroutine's position in its slice
  partial,     \* each goroutine's partial map
  out,         \* the buffered content of the out channel
  merged,      \* the loop variable i of the merge loop
  avg          \* history: the candidate, the den and the branch of the last weighted average

rvars == <<call, ds, user, topK, metric, neighborK, workers, rpc, candidates, cidx,
           scores, result, userSims, neighbors, gpc, gslice, gpos, partial, out,
           merged, avg>>

\* the state of one call of a metric or of topNneighborsFromScores
VARIABLES
  fn,          \* the function called
  argA, argB,  \* its arguments
  ret,         \* the value it returned
  fpc,         \* position of the caller: before the call or after the return
  minHeap,     \* topNneighborsFromScores: the heap h
  visit,       \* the order in which its range loop visits the score map
  vpos         \* the number of candidates the loop has offered so far

fvars == <<fn, argA, argB, ret, fpc, minHeap, visit, vpos>>

n == Len(users)
Idx == 0..(n - 1)
Workers == 0..(numWorkers - 1)

\* the factor of "numWorkers*100"
BufFactor == 100

\* totalComparisons := (n * (n - 1)) / 2
totalComparisons == (n * (n - 1)) \div 2

\* a capacity raised to 1 when the computed one is 0
bufferSize_AtLeastOne ==
  IF min(totalComparisons, numWorkers * BufFactor) < 1 THEN 1
  ELSE min(totalComparisons, numWorkers * BufFactor)

\* bufferSize := min(totalComparisons, numWorkers*100): capacity of jobs and results
bufferSize == min(totalComparisons, numWorkers * BufFactor)

\* the entity lists of length at most MaxN
RECURSIVE SeqsUpTo(_, _)
SeqsUpTo(S, k) ==
  IF k = 0 THEN {<<>>}
  ELSE LET shorter == SeqsUpTo(S, k - 1)
       IN  shorter \cup {Append(s, x) : s \in {t \in shorter : Len(t) = k - 1}, x \in S}

\* a builder has been called; nothing of its body has run
InitMatrix ==
  /\ builder \in Builders
  /\ users \in SeqsUpTo(UserPool, MaxN)
  /\ numWorkers \in 0..MaxWorkers
  /\ similarity = <<>>
  /\ jobs = <<>> /\ jobsClosed = FALSE
  /\ results = <<>> /\ resultsClosed = FALSE
  /\ wg = 0
  /\ mainpc = "alloc"
  /\ spawned = 0
  /\ res = <<>>
  /\ mu = FALSE
  /\ wpc = [w \in Workers |-> "unborn"]
  /\ wres = [w \in Workers |-> <<>>]
  /\ ppc = "unborn" /\ prodI = 0 /\ prodJ = 0
  /\ cpc = "unborn"
  /\ panicked = FALSE
  /\ sent = [p \in Idx \X Idx |-> 0]
  /\ taken = [p \in Idx \X Idx |-> <<>>]
  /\ applied = [p \in Idx \X Idx |-> 0]
  /\ writers = {}

\* similarity := make(...); for i := range similarity { ...; similarity[i][i] = 1.0 }
Alloc ==
  /\ mainpc = "alloc" /\ ~panicked
  /\ similarity' = DiagMatrix(n)
  /\ mainpc' = "spawnWorkers"
  /\ UNCHANGED <<builder, users, numWorkers, jobs, jobsClosed, results, resultsClosed,
                 wg, spawned, res, mu, wpc, wres, ppc, prodI, prodJ, cpc, panicked,
                 sent, taken, applied, writers>>
  /\ UNCHANGED <<rvars, fvars>>

\* one round of "for w := 0; w < numWorkers; w++ { wg.Add(1); go func() {...}() }"
SpawnWorker ==
  /\ mainpc = "spawnWorkers" /\ ~panicked
  /\ spawned < numWorkers
  /\ wg' = wg + 1
  /\ wpc' = [wpc EXCEPT ![spawned] = "recv"]
  /\ spawned' = spawned + 1
  /\ UNCHANGED <<builder, users, numWorkers, similarity, jobs, jobsClosed, results,
                 resultsClosed, mainpc, res, mu, wres, ppc, prodI, prodJ, cpc,
                 panicked, sent, taken, applied, writers>>
  /\ UNCHANGED <<rvars, fvars>>

\* the loop position of the producer at or after (i, j): the next i < j < n in
\* the order of "for i := 0; i < n; i++ { for j := i + 1; j < n; j++", or
\* <<n, n>> when the loops are over
\* mutant of LoopPos: the inner loop stops one column early (j < n - 1)
RECURSIVE LoopPos_ShortRow(_, _, _)
LoopPos_ShortRow(i, j, len) ==
  IF i >= len THEN <<len, len>>
  ELSE IF j < len - 1 THEN <<i, j>>
  ELSE LoopPos_ShortRow(i + 1, i + 2, len)

\* mutant of LoopPos: past the first row the inner loop starts on the diagonal (j := i)
RECURSIVE LoopPos_FromDiagonal(_, _, _)
LoopPos_FromDiagonal(i, j, len) ==
  IF i >= len THEN <<len, len>>
  ELSE IF j < len THEN <<i, j>>
  ELSE LoopPos_FromDiagonal(i + 1, i + 1, len)

RECURSIVE LoopPos(_, _, _)
LoopPos(i, j, len) ==
  IF i >= len THEN <<len, len>>
  ELSE IF j < len THEN <<i, j>>
  ELSE LoopPos(i + 1, i + 2, len)

\* the worker loop ends; "go func() { for i ... jobs <- job{i, j} ...; close(jobs) }()" starts
SpawnProducer ==
  /\ mainpc = "spawnWorkers" /\ ~panicked
  /\ spawned >= numWorkers
  /\ ppc' = "send"
  /\ prodI' = LoopPos(0, 1, n)[1]
  /\ prodJ' = LoopPos(0, 1, n)[2]
  /\ mainpc' = "spawnCloser"
  /\ UNCHANGED <<builder, users, numWorkers, similarity, jobs, jobsClosed, results,
                 resultsClosed, wg, spawned, res, mu, wpc, wres, cpc, panicked,
                 sent, taken, applied, writers>>
  /\ UNCHANGED <<rvars, fvars>>

\* "go func() { wg.Wait(); close(results) }()" starts; the caller enters its collector loop
SpawnCloser ==
  /\ mainpc = "spawnCloser" /\ ~panicked
  /\ cpc' = "wait"
  /\ mainpc' = "recv"
  /\ UNCHANGED <<builder, users, numWorkers, similarity, jobs, jobsClosed, results,
                 resultsClosed, wg, spawned, res, mu, wpc, wres, ppc, prodI, prodJ,
                 panicked, sent, taken, applied, writers>>
  /\ UNCHANGED <<rvars, fvars>>

\* mutant of ResultOf: the metric is called on (users[j.i], users[j.i])
ResultOf_SameUser(jb) ==
  [i |-> jb.i, j |-> jb.j, sim |-> Metric(builder, users[jb.i + 1], users[jb.i + 1])]

\* result{j.i, j.j, sim} of a worker for job jb
ResultOf(jb) ==
  [i |-> jb.i, j |-> jb.j, sim |-> Metric(builder, users[jb.i + 1], users[jb.j + 1])]

\* jobs <- job{i, j}: into the buffer when there is room; on an unbuffered channel
\* (bufferSize = 0) straight to a worker blocked in its receive; a send on a closed
\* channel panics
ProducerSend ==
  /\ ppc = "send" /\ ~panicked
  /\ prodI < n
  /\ LET jb == [i |-> prodI, j |-> prodJ]
         nxt == LoopPos(prodI, prodJ + 1, n)
     IN  IF jobsClosed
         THEN /\ panicked' = TRUE
              /\ UNCHANGED <<jobs, wpc, wres, prodI, prodJ, sent, taken>>
         ELSE /\ IF bufferSize > 0
                 THEN /\ Len(jobs) < bufferSize
                      /\ jobs' = Append(jobs, jb)
                      /\ UNCHANGED <<wpc, wres, taken>>
                 ELSE \E w \in Workers :
                        /\ wpc[w] = "recv"
                        /\ wpc' = [wpc EXCEPT ![w] = "send"]
                        /\ wres' = [wres EXCEPT ![w] = ResultOf(jb)]
                        /\ taken' = [taken EXCEPT ![<<jb.i, jb.j>>] = Append(@, w)]
                        /\ UNCHANGED jobs
              /\ sent' = [sent EXCEPT ![<<jb.i, jb.j>>] = @ + 1]
              /\ prodI' = nxt[1]
              /\ prodJ' = nxt[2]
              /\ UNCHANGED panicked
  /\ UNCHANGED <<builder, users, numWorkers, similarity, jobsClosed, results,
                 resultsClosed, wg, mainpc, spawned, res, mu, ppc, cpc, applied, writers>>
  /\ UNCHANGED <<rvars, fvars>>

\* close(jobs) after the producer's loops
ProducerClose ==
  /\ ppc = "send" /\ ~panicked
  /\ prodI >= n
  /\ jobsClosed' = TRUE
  /\ ppc' = "done"
  /\ UNCHANGED <<builder, users, numWorkers, similarity, jobs, results, resultsClosed,
                 wg, mainpc, spawned, res, mu, wpc, wres, prodI, prodJ, cpc, panicked,
                 sent, taken, applied, writers>>
  /\ UNCHANGED <<rvars, fvars>>

\* "for j := range jobs" receives a job; sim := metric(users[j.i], users[j.j])
WorkerRecv(w) ==
  /\ wpc[w] = "recv" /\ ~panicked
  /\ jobs # <<>>
  /\ wres' = [wres EXCEPT ![w] = ResultOf(Head(jobs))]
  /\ taken' = [taken EXCEPT ![<<Head(jobs).i, Head(jobs).j>>] = Append(@, w)]
  /\ jobs' = Tail(jobs)
  /\ wpc' = [wpc EXCEPT ![w] = "send"]
  /\ UNCHANGED <<builder, users, numWorkers, similarity, jobsClosed, results,
                 resultsClosed, wg, mainpc, spawned, res, mu, ppc, prodI, prodJ, cpc,
                 panicked, sent, applied, writers>>
  /\ UNCHANGED <<rvars, fvars>>

\* mutant of WorkerSend: the worker writes its result into the matrix itself
WorkerSend_WritesMatrix(w) ==
  /\ wpc[w] = "send" /\ ~panicked
  /\ similarity' = SetEntry(SetEntry(similarity, wres[w].i, wres[w].j, wres[w].sim),
                            wres[w].j, wres[w].i, wres[w].sim)
  /\ writers' = writers \cup {"worker"}
  /\ wpc' = [wpc EXCEPT ![w] = "recv"]
  /\ wres' = [wres EXCEPT ![w] = <<>>]
  /\ UNCHANGED <<builder, users, numWorkers, jobs, jobsClosed, results, resultsClosed,
                 wg, mainpc, spawned, res, mu, ppc, prodI, prodJ, cpc, panicked, sent,
                 taken, applied>>
  /\ UNCHANGED <<rvars, fvars>>

\* results <- result{j.i, j.j, sim}: into the buffer when there is room; on an
\* unbuffered channel straight to the collector blocked in its receive; a send on
\* a closed channel panics
WorkerSend(w) ==
  /\ wpc[w] = "send" /\ ~panicked
  /\ IF resultsClosed
     THEN /\ panicked' = TRUE
          /\ UNCHANGED <<results, res, mainpc, wpc, wres>>
     ELSE /\ IF bufferSize > 0
             THEN /\ Len(results) < bufferSize
                  /\ results' = Append(results, wres[w])
                  /\ UNCHANGED <<res, mainpc>>
             ELSE /\ mainpc = "recv"
                  /\ res' = wres[w]
                  /\ mainpc' = "lock"
                  /\ UNCHANGED results
          /\ wpc' = [wpc EXCEPT ![w] = "recv"]
          /\ wres' = [wres EXCEPT ![w] = <<>>]
          /\ UNCHANGED panicked
  /\ UNCHANGED <<builder, users, numWorkers, similarity, jobs, jobsClosed,
                 resultsClosed, wg, spawned, mu, ppc, prodI, prodJ, cpc, sent, taken,
                 applied, writers>>
  /\ UNCHANGED <<rvars, fvars>>

\* mutant of WorkerExit: the worker leaves without wg.Done()
WorkerExit_NoDone(w) ==
  /\ wpc[w] = "recv" /\ ~panicked
  /\ jobs = <<>> /\ jobsClosed
  /\ wpc' = [wpc EXCEPT ![w] = "done"]
  /\ UNCHANGED <<builder, users, numWorkers, similarity, jobs, jobsClosed, results,
                 resultsClosed, wg, mainpc, spawned, res, mu, wres, ppc, prodI, prodJ,
                 cpc, panicked, sent, taken, applied, writers>>
  /\ UNCHANGED <<rvars, fvars>>

\* "for j := range jobs" ends on the closed, drained channel; the deferred wg.Done() runs
WorkerExit(w) ==
  /\ wpc[w] = "recv" /\ ~panicked
  /\ jobs = <<>> /\ jobsClosed
  /\ wg' = wg - 1
  /\ wpc' = [wpc EXCEPT ![w] = "done"]
  /\ UNCHANGED <<builder, users, numWorkers, similarity, jobs, jobsClosed, results,
                 resultsClosed, mainpc, spawned, res, mu, wres, ppc, prodI, prodJ, cpc,
                 panicked, sent, taken, applied, writers>>
  /\ UNCHANGED <<rvars, fvars>>

\* a closer that does not wait for the workers
CloserWait_NoWait ==
  /\ cpc = "wait" /\ ~panicked
  /\ cpc' = "close"
  /\ UNCHANGED <<builder, users, numWorkers, similarity, jobs, jobsClosed, results,
                 resultsClosed, wg, mainpc, spawned, res, mu, wpc, wres, ppc, prodI,
                 prodJ, panicked, sent, taken, applied, writers>>
  /\ UNCHANGED <<rvars, fvars>>

\* wg.Wait() returns once the counter is zero
CloserWait ==
  /\ cpc = "wait" /\ ~panicked
  /\ wg = 0
  /\ cpc' = "close"
  /\ UNCHANGED <<builder, users, numWorkers, similarity, jobs, jobsClosed, results,
                 resultsClosed, wg, mainpc, spawned, res, mu, wpc, wres, ppc, prodI,
                 prodJ, panicked, sent, taken, applied, writers>>
  /\ UNCHANGED <<rvars, fvars>>

\* close(results)
CloserClose ==
  /\ cpc = "close" /\ ~panicked
  /\ resultsClosed' = TRUE
  /\ cpc' = "done"
  /\ UNCHANGED <<builder, users, numWorkers, similarity, jobs, jobsClosed, results,
                 wg, mainpc, spawned, res, mu, wpc, wres, ppc, prodI, prodJ, panicked,
                 sent, taken, applied, writers>>
  /\ UNCHANGED <<rvars, fvars>>

\* "for res := range results" receives a buffered result
CollectRecv ==
  /\ mainpc = "recv" /\ ~panicked
  /\ results # <<>>
  /\ res' = Head(results)
  /\ results' = Tail(results)
  /\ mainpc' = "lock"
  /\ UNCHANGED <<builder, users, numWorkers, similarity, jobs, jobsClosed,
                 resultsClosed, wg, spawned, mu, wpc, wres, ppc, prodI, prodJ, cpc,
                 panicked, sent, taken, applied, writers>>
  /\ UNCHANGED <<rvars, fvars>>

\* mu.Lock()
CollectLock ==
  /\ mainpc = "lock" /\ ~panicked
  /\ ~mu
  /\ mu' = TRUE
  /\ mainpc' = "writeIJ"
  /\ UNCHANGED <<builder, users, numWorkers, similarity, jobs, jobsClosed, results,
                 resultsClosed, wg, spawned, res, wpc, wres, ppc, prodI, prodJ, cpc,
                 panicked, sent, taken, applied, writers>>
  /\ UNCHANGED <<rvars, fvars>>

\* similarity[res.i][res.j] = res.sim
CollectWriteIJ ==
  /\ mainpc = "writeIJ" /\ ~panicked
  /\ similarity' = SetEntry(similarity, res.i, res.j, res.sim)
  /\ writers' = writers \cup {"main"}
  /\ mainpc' = "writeJI"
  /\ UNCHANGED <<builder, users, numWorkers, jobs, jobsClosed, results, resultsClosed,
                 wg, spawned, res, mu, wpc, wres, ppc, prodI, prodJ, cpc, panicked,
                 sent, taken, applied>>
  /\ UNCHANGED <<rvars, fvars>>

\* similarity[res.j][res.i] = res.sim
CollectWriteJI ==
  /\ mainpc = "writeJI" /\ ~panicked
  /\ similarity' = SetEntry(similarity, res.j, res.i, res.sim)
  /\ writers' = writers \cup {"main"}
  /\ applied' = [applied EXCEPT ![<<res.i, res.j>>] = @ + 1]
  /\ mainpc' = "unlock"
  /\ UNCHANGED <<builder, users, numWorkers, jobs, jobsClosed, results, resultsClosed,
                 wg, spawned, res, mu, wpc, wres, ppc, prodI, prodJ, cpc, panicked,
                 sent, taken>>
  /\ UNCHANGED <<rvars, fvars>>

\* mu.Unlock(); back to the head of the collector loop
CollectUnlock ==
  /\ mainpc = "unlock" /\ ~panicked
  /\ mu' = FALSE
  /\ mainpc' = "recv"
  /\ UNCHANGED <<builder, users, numWorkers, similarity, jobs, jobsClosed, results,
                 resultsClosed, wg, spawned, res, wpc, wres, ppc, prodI, prodJ, cpc,
                 panicked, sent, taken, applied, writers>>
  /\ UNCHANGED <<rvars, fvars>>

\* "for res := range results" ends on the closed, drained channel; return similarity
CollectReturn ==
  /\ mainpc = "recv" /\ ~panicked
  /\ results = <<>> /\ resultsClosed
  /\ mainpc' = "done"
  /\ UNCHANGED <<builder, users, numWorkers, similarity, jobs, jobsClosed, results,
                 resultsClosed, wg, spawned, res, mu, wpc, wres, ppc, prodI, prodJ, cpc,
                 panicked, sent, taken, applied, writers>>
  /\ UNCHANGED <<rvars, fvars>>

NextMatrix ==
  \/ Alloc
  \/ SpawnWorker
  \/ SpawnProducer
  \/ SpawnCloser
  \/ ProducerSend
  \/ ProducerClose
  \/ \E w \in Workers : WorkerRecv(w)
  \/ \E w \in Workers : WorkerSend(w)
  \/ \E w \in Workers : WorkerExit(w)
  \/ CloserWait
  \/ CloserClose
  \/ CollectRecv
  \/ CollectLock
  \/ CollectWriteIJ
  \/ CollectWriteJI
  \/ CollectUnlock
  \/ CollectReturn

\* ----------------------------------------------------- the recommenders
vars == <<mvars, rvars, fvars, panicked>>

\* largest user id and largest item id of a dataset
MaxUsers == 2
MaxItems == 4
\* largest topK, neighborK and workers arguments
MaxTopK == 2
MaxNeighborK == 2
MaxRecWorkers == 3

UserIds == 1..MaxUsers
ItemIds == 1..MaxItems
RecWorkers == 0..(workers - 1)

\* the rating user u gives item it when it rates it: raw 1..5, normalised raw / 5.0
RatingOf(u, it) == Rat(((u + 2 * it) % 5) + 1, 5)

\* the rating vectors user u can have (the empty one included)
Vectors(u) == {[it \in S |-> RatingOf(u, it)] : S \in SUBSET ItemIds}

\* the UserRatings maps: any subset of the users, each with one of its vectors
Datasets ==
  UNION {{f \in [D -> UNION {Vectors(u) : u \in UserIds}] : \A u \in D : f[u] \in Vectors(u)} :
           D \in SUBSET UserIds}

\* a recommender has been called; nothing of its body has run
InitRec ==
  /\ call \in {"ItemBased", "ItemBasedParallel", "UserBased"}
  /\ ds \in Datasets
  /\ user \in UserIds
  /\ topK \in 1..MaxTopK
  /\ metric \in SimMetrics
  /\ neighborK \in 0..MaxNeighborK
  /\ workers \in IF call = "ItemBasedParallel" THEN 1..MaxRecWorkers ELSE {0}
  /\ rpc = "start"
  /\ candidates = <<>>
  /\ cidx = 0
  /\ scores = <<>>
  /\ result = <<>>
  /\ userSims = <<>>
  /\ neighbors = <<>>
  /\ gpc = [w \in RecWorkers |-> "unborn"]
  /\ gslice = [w \in RecWorkers |-> <<>>]
  /\ gpos = [w \in RecWorkers |-> 0]
  /\ partial = [w \in RecWorkers |-> <<>>]
  /\ out = <<>>
  /\ merged = 0
  /\ avg = NoAvg
  /\ panicked = FALSE

userRatings == ds[user]
itemIndex == BuildItemIndex(ds)

\* the items of the index the user has not rated
Unrated == {it \in DOMAIN itemIndex : it \notin DOMAIN userRatings}

\* RecommendItemBased and RecommendItemBasedParallel up to the candidates loop:
\* return nil for an unknown user, else collect the candidates in map order
RecStart ==
  /\ rpc = "start" /\ ~panicked
  /\ call \in {"ItemBased", "ItemBasedParallel"}
  /\ IF user \notin DOMAIN ds
     THEN /\ result' = <<>>
          /\ rpc' = "done"
          /\ UNCHANGED candidates
     ELSE /\ candidates' \in Perms(Unrated)
          /\ rpc' = IF call = "ItemBased" THEN "score" ELSE "spawn"
          /\ UNCHANGED result
  /\ UNCHANGED <<call, ds, user, topK, metric, neighborK, workers, cidx, scores,
                 userSims, neighbors, gpc, gslice, gpos, partial, out, merged, panicked, avg>>
  /\ UNCHANGED <<mvars, fvars>>

\* one round of RecommendItemBased's "for _, itemV := range candidates"
SeqScore ==
  /\ rpc = "score" /\ ~panicked
  /\ call = "ItemBased"
  /\ cidx < Len(candidates)
  /\ \E order \in Perms(DOMAIN userRatings) :
       /\ scores' = (candidates[cidx + 1] :>
                       seqScoreItem(userRatings, itemIndex, candidates[cidx + 1],
                                    metric, neighborK, order)) @@ scores
       /\ avg' = AvgOf(candidates[cidx + 1],
                       seqNeighbors(userRatings, itemIndex, candidates[cidx + 1],
                                    metric, neighborK, order))
  /\ cidx' = cidx + 1
  /\ UNCHANGED <<call, ds, user, topK, metric, neighborK, workers, rpc, candidates,
                 result, userSims, neighbors, gpc, gslice, gpos, partial, out, merged,
                 panicked>>
  /\ UNCHANGED <<mvars, fvars>>

\* return topKFromMap(scores, topK), of RecommendItemBased and RecommendUserBased
SeqReturn ==
  /\ rpc = "score" /\ ~panicked
  /\ call \in {"ItemBased", "UserBased"}
  /\ cidx >= Len(candidates)
  /\ result' \in topKFromMap(scores, topK)
  /\ rpc' = "done"
  /\ UNCHANGED <<call, ds, user, topK, metric, neighborK, workers, candidates, cidx,
                 scores, userSims, neighbors, gpc, gslice, gpos, partial, out, merged,
                 panicked, avg>>
  /\ UNCHANGED <<mvars, fvars>>

\* chunk := len(candidates) / workers; if chunk == 0 { chunk = 1 }
chunk ==
  IF Len(candidates) \div workers = 0 THEN 1 ELSE Len(candidates) \div workers

\* a slice that starts on the last candidate of the slice before it
SliceStart_Overlap(w) == IF w = 0 THEN 0 ELSE w * chunk - 1

\* start := w * chunk
SliceStart(w) == w * chunk

\* end := start + chunk; if end > len(candidates) { end = len(candidates) }
SliceEnd(w) ==
  IF SliceStart(w) + chunk > Len(candidates) THEN Len(candidates)
  ELSE SliceStart(w) + chunk

\* one round of "for w := 0; w < workers; w++": candidates[start:end] panics
\* (slice bounds out of range) when start > end, else the goroutine starts on it
ParSpawn ==
  /\ rpc = "spawn" /\ ~panicked
  /\ cidx < workers
  /\ IF SliceStart(cidx) > SliceEnd(cidx)
     THEN /\ panicked' = TRUE
          /\ UNCHANGED <<gpc, gslice, cidx>>
     ELSE /\ gpc' = [gpc EXCEPT ![cidx] = "run"]
          /\ gslice' = [gslice EXCEPT
                          ![cidx] = SubSeq(candidates, SliceStart(cidx) + 1, SliceEnd(cidx))]
          /\ cidx' = cidx + 1
          /\ UNCHANGED panicked
  /\ UNCHANGED <<call, ds, user, topK, metric, neighborK, workers, rpc, candidates,
                 scores, result, userSims, neighbors, gpos, partial, out, merged, avg>>
  /\ UNCHANGED <<mvars, fvars>>

\* the spawn loop ends; scores := make(map[int]float64)
ParMergeBegin ==
  /\ rpc = "spawn" /\ ~panicked
  /\ cidx >= workers
  /\ scores' = <<>>
  /\ merged' = 0
  /\ rpc' = "merge"
  /\ UNCHANGED <<call, ds, user, topK, metric, neighborK, workers, candidates, cidx,
                 result, userSims, neighbors, gpc, gslice, gpos, partial, out, panicked, avg>>
  /\ UNCHANGED <<mvars, fvars>>

\* mutant of GoScoreItem: partial is one map shared by the goroutines (declared
\* outside the go func), so a goroutine's write lands in every goroutine's map
GoScoreItem_SharedPartial(w) ==
  /\ gpc[w] = "run" /\ ~panicked
  /\ gpos[w] < Len(gslice[w])
  /\ \E order \in Perms(DOMAIN userRatings) :
       LET itemV == gslice[w][gpos[w] + 1]
           r == scoreItem(userRatings, itemIndex, itemV, metric, neighborK, order)
           nbs == topNneighborsFromScores(
                    SimScores(userRatings, itemIndex, itemV, metric), neighborK, order)
       IN  IF r.panic
           THEN /\ panicked' = TRUE
                /\ UNCHANGED <<partial, gpos, avg>>
           ELSE /\ partial' = [v \in RecWorkers |-> (itemV :> r.val) @@ partial[v]]
                /\ gpos' = [gpos EXCEPT ![w] = @ + 1]
                /\ avg' = AvgOf(itemV, nbs.list)
                /\ UNCHANGED panicked
  /\ UNCHANGED <<call, ds, user, topK, metric, neighborK, workers, rpc, candidates,
                 cidx, scores, result, userSims, neighbors, gpc, gslice, out, merged>>
  /\ UNCHANGED <<mvars, fvars>>

\* one round of a goroutine's "for _, itemV := range slice":
\* partial[itemV] = scoreItem(...); a panic in scoreItem kills the process
GoScoreItem(w) ==
  /\ gpc[w] = "run" /\ ~panicked
  /\ gpos[w] < Len(gslice[w])
  /\ \E order \in Perms(DOMAIN userRatings) :
       LET itemV == gslice[w][gpos[w] + 1]
           r == scoreItem(userRatings, itemIndex, itemV, metric, neighborK, order)
           nbs == topNneighborsFromScores(
                    SimScores(userRatings, itemIndex, itemV, metric), neighborK, order)
       IN  IF r.panic
           THEN /\ panicked' = TRUE
                /\ UNCHANGED <<partial, gpos, avg>>
           ELSE /\ partial' = [partial EXCEPT ![w] = (itemV :> r.val) @@ @]
                /\ gpos' = [gpos EXCEPT ![w] = @ + 1]
                /\ avg' = AvgOf(itemV, nbs.list)
                /\ UNCHANGED panicked
  /\ UNCHANGED <<call, ds, user, topK, metric, neighborK, workers, rpc, candidates,
                 cidx, scores, result, userSims, neighbors, gpc, gslice, out, merged>>
  /\ UNCHANGED <<mvars, fvars>>

\* mutant of GoSend: the goroutine sends its partial without finishing its slice
GoSend_BeforeSliceEnd(w) ==
  /\ gpc[w] = "run" /\ ~panicked
  /\ Len(out) < workers
  /\ out' = Append(out, partial[w])
  /\ gpc' = [gpc EXCEPT ![w] = "done"]
  /\ UNCHANGED <<call, ds, user, topK, metric, neighborK, workers, rpc, candidates,
                 cidx, scores, result, userSims, neighbors, gslice, gpos, partial, merged,
                 panicked, avg>>
  /\ UNCHANGED <<mvars, fvars>>

\* out <- partial (out has capacity workers)
GoSend(w) ==
  /\ gpc[w] = "run" /\ ~panicked
  /\ gpos[w] >= Len(gslice[w])
  /\ Len(out) < workers
  /\ out' = Append(out, partial[w])
  /\ gpc' = [gpc EXCEPT ![w] = "done"]
  /\ UNCHANGED <<call, ds, user, topK, metric, neighborK, workers, rpc, candidates,
                 cidx, scores, result, userSims, neighbors, gslice, gpos, partial, merged,
                 panicked, avg>>
  /\ UNCHANGED <<mvars, fvars>>

\* one round of the merge loop: part := <-out; for k, v := range part { scores[k] = v }
ParMerge ==
  /\ rpc = "merge" /\ ~panicked
  /\ merged < workers
  /\ out # <<>>
  /\ scores' = Head(out) @@ scores
  /\ out' = Tail(out)
  /\ merged' = merged + 1
  /\ UNCHANGED <<call, ds, user, topK, metric, neighborK, workers, rpc, candidates,
                 cidx, result, userSims, neighbors, gpc, gslice, gpos, partial, panicked, avg>>
  /\ UNCHANGED <<mvars, fvars>>

\* the merge loop ends; return topKFromMap(scores, topK)
ParReturn ==
  /\ rpc = "merge" /\ ~panicked
  /\ merged >= workers
  /\ result' \in topKFromMap(scores, topK)
  /\ rpc' = "done"
  /\ UNCHANGED <<call, ds, user, topK, metric, neighborK, workers, candidates, cidx,
                 scores, userSims, neighbors, gpc, gslice, gpos, partial, out, merged,
                 panicked, avg>>
  /\ UNCHANGED <<mvars, fvars>>

\* the similarity threshold RecommendUserBased tests after storing a similarity
Threshold == Rat(1, 20)

\* a RecommendUserBased that tests the threshold before it stores the similarity
UBStart_ThresholdBeforeStore ==
  /\ rpc = "start" /\ ~panicked
  /\ call = "UserBased"
  /\ IF user \notin DOMAIN ds
     THEN /\ result' = <<>>
          /\ rpc' = "done"
          /\ UNCHANGED userSims
     ELSE /\ userSims' = [other \in {o \in DOMAIN ds \ {user} :
                                        ~RatLess(simBetween(userRatings, ds[o], metric),
                                                 Threshold)} |->
                            simBetween(userRatings, ds[other], metric)]
          /\ rpc' = "neighbors"
          /\ UNCHANGED result
  /\ UNCHANGED <<call, ds, user, topK, metric, neighborK, workers, candidates, cidx,
                 scores, neighbors, gpc, gslice, gpos, partial, out, merged, panicked, avg>>
  /\ UNCHANGED <<mvars, fvars>>

\* RecommendUserBased up to the neighbour selection: return nil for an unknown
\* user, else fill userSims (the 0.05 test follows the store and skips nothing)
UBStart ==
  /\ rpc = "start" /\ ~panicked
  /\ call = "UserBased"
  /\ IF user \notin DOMAIN ds
     THEN /\ result' = <<>>
          /\ rpc' = "done"
          /\ UNCHANGED userSims
     ELSE /\ userSims' = [other \in DOMAIN ds \ {user} |->
                            simBetween(userRatings, ds[other], metric)]
          /\ rpc' = "neighbors"
          /\ UNCHANGED result
  /\ UNCHANGED <<call, ds, user, topK, metric, neighborK, workers, candidates, cidx,
                 scores, neighbors, gpc, gslice, gpos, partial, out, merged, panicked, avg>>
  /\ UNCHANGED <<mvars, fvars>>

\* the items the neighbours nbs rated and the target did not
UBCandidates(nbs) ==
  {it \in UNION {DOMAIN ds[nbs[k].id] : k \in 1..Len(nbs)} : it \notin DOMAIN userRatings}

\* neighbors := topNneighborsFromScores(userSims, neighborK); return nil when
\* there is none; else collect the candidates in map order
UBNeighbors ==
  /\ rpc = "neighbors" /\ ~panicked
  /\ \E order \in Perms(DOMAIN userSims) :
       LET r == topNneighborsFromScores(userSims, neighborK, order)
       IN  IF r.panic
           THEN /\ panicked' = TRUE
                /\ UNCHANGED <<neighbors, candidates, result, rpc>>
           ELSE IF Len(r.list) = 0
           THEN /\ result' = <<>>
                /\ rpc' = "done"
                /\ UNCHANGED <<neighbors, candidates, panicked>>
           ELSE /\ neighbors' = r.list
                /\ candidates' \in Perms(UBCandidates(r.list))
                /\ rpc' = "score"
                /\ UNCHANGED <<result, panicked>>
  /\ UNCHANGED <<call, ds, user, topK, metric, neighborK, workers, cidx, scores,
                 userSims, gpc, gslice, gpos, partial, out, merged, avg>>
  /\ UNCHANGED <<mvars, fvars>>

\* the neighbours of nbs that rated item it, with their rating of it
RatedBy(nbs, it) == SelectSeq(nbs, LAMBDA nb : it \in DOMAIN ds[nb.id])

\* one round of RecommendUserBased's "for _, it := range candidates"
UBScore ==
  /\ rpc = "score" /\ ~panicked
  /\ call = "UserBased"
  /\ cidx < Len(candidates)
  /\ LET it == candidates[cidx + 1]
         raters == RatedBy(neighbors, it)
         ratings == [u \in {raters[k].id : k \in 1..Len(raters)} |-> ds[u][it]]
     IN  /\ scores' = (it :> Predict(raters, ratings)) @@ scores
         /\ avg' = AvgOf(it, raters)
  /\ cidx' = cidx + 1
  /\ UNCHANGED <<call, ds, user, topK, metric, neighborK, workers, rpc, candidates,
                 result, userSims, neighbors, gpc, gslice, gpos, partial, out, merged,
                 panicked>>
  /\ UNCHANGED <<mvars, fvars>>

NextRec ==
  \/ RecStart
  \/ SeqScore
  \/ SeqReturn
  \/ ParSpawn
  \/ ParMergeBegin
  \/ \E w \in RecWorkers : GoScoreItem(w)
  \/ \E w \in RecWorkers : GoSend(w)
  \/ ParMerge
  \/ ParReturn
  \/ UBStart
  \/ UBNeighbors
  \/ UBScore

\* ------------------------------- one call of a metric or of the selector
\* largest key of a sparse vector handed to a metric
MaxKey == 2
\* largest id of a scored entry and largest n handed to topNneighborsFromScores
MaxIds == 3
MaxCap == 3

\* the weights a loaded vector holds (values arrive normalised to [0, 1])
Weights == {Zero, Rat(1, 2), One}

\* the sparse vectors map[int]float64 over the keys 1 .. MaxKey
SparseVectors == UNION {[S -> Weights] : S \in SUBSET (1..MaxKey)}

\* the User.Games maps over the games 1 .. MaxKey, each feature 0 or 1
GameMaps ==
  UNION {[S -> {GI(p, r) : p \in {0, 1}, r \in {0, 1}}] : S \in SUBSET (1..MaxKey)}

\* the score maps over the ids 1 .. MaxIds
ScoreMaps == UNION {[S -> Weights] : S \in SUBSET (1..MaxIds)}

MlMetrics == {"Cosine", "Pearson", "Jaccard"}
UserMetrics == {"cosineSimilarity", "pearsonCorrelation", "jaccardIndex", "JaccardWeighted"}

\* a metric is about to be called on two vectors, or topNneighborsFromScores on
\* a score map and an n
InitFn ==
  /\ fn \in MlMetrics \cup UserMetrics \cup {"topNneighborsFromScores"}
  /\ argA \in IF fn \in MlMetrics THEN SparseVectors
              ELSE IF fn \in UserMetrics THEN GameMaps ELSE ScoreMaps
  /\ argB \in IF fn \in MlMetrics THEN SparseVectors
              ELSE IF fn \in UserMetrics THEN GameMaps ELSE 0..MaxCap
  /\ ret = <<>>
  /\ fpc = "call"
  /\ minHeap = <<>> /\ visit = <<>> /\ vpos = 0
  /\ panicked = FALSE

\* ret := Cosine(argA, argB)
CallCosine ==
  /\ fpc = "call" /\ fn = "Cosine"
  /\ ret' = Cosine(argA, argB)
  /\ fpc' = "done"
  /\ UNCHANGED <<fn, argA, argB, panicked, minHeap, visit, vpos>>
  /\ UNCHANGED <<mvars, rvars>>

\* ret := Pearson(argA, argB)
CallPearson ==
  /\ fpc = "call" /\ fn = "Pearson"
  /\ ret' = Pearson(argA, argB)
  /\ fpc' = "done"
  /\ UNCHANGED <<fn, argA, argB, panicked, minHeap, visit, vpos>>
  /\ UNCHANGED <<mvars, rvars>>

\* ret := Jaccard(argA, argB)
CallJaccard ==
  /\ fpc = "call" /\ fn = "Jaccard"
  /\ ret' = Jaccard(argA, argB)
  /\ fpc' = "done"
  /\ UNCHANGED <<fn, argA, argB, panicked, minHeap, visit, vpos>>
  /\ UNCHANGED <<mvars, rvars>>

\* ret := cosineSimilarity(argA, argB)
CallCosineSimilarity ==
  /\ fpc = "call" /\ fn = "cosineSimilarity"
  /\ ret' = cosineSimilarity(argA, argB)
  /\ fpc' = "done"
  /\ UNCHANGED <<fn, argA, argB, panicked, minHeap, visit, vpos>>
  /\ UNCHANGED <<mvars, rvars>>

\* ret := pearsonCorrelation(argA, argB)
CallPearsonCorrelation ==
  /\ fpc = "call" /\ fn = "pearsonCorrelation"
  /\ ret' = pearsonCorrelation(argA, argB)
  /\ fpc' = "done"
  /\ UNCHANGED <<fn, argA, argB, panicked, minHeap, visit, vpos>>
  /\ UNCHANGED <<mvars, rvars>>

\* ret := jaccardIndex(argA, argB)
CallJaccardIndex ==
  /\ fpc = "call" /\ fn = "jaccardIndex"
  /\ ret' = jaccardIndex(argA, argB)
  /\ fpc' = "done"
  /\ UNCHANGED <<fn, argA, argB, panicked, minHeap, visit, vpos>>
  /\ UNCHANGED <<mvars, rvars>>

\* ret := JaccardWeighted(argA, argB)
CallJaccardWeighted ==
  /\ fpc = "call" /\ fn = "JaccardWeighted"
  /\ ret' = JaccardWeighted(argA, argB)
  /\ fpc' = "done"
  /\ UNCHANGED <<fn, argA, argB, panicked, minHeap, visit, vpos>>
  /\ UNCHANGED <<mvars, rvars>>

\* ret := topNneighborsFromScores(argA, argB), the map visited in any order; the
\* read of (*h)[0] on an empty heap panics
CallTopN ==
  /\ fpc = "call" /\ fn = "topNneighborsFromScores"
  /\ \E order \in Perms(DOMAIN argA) :
       LET r == topNneighborsFromScores(argA, argB, order)
       IN  /\ ret' = r.list
           /\ panicked' = r.panic
  /\ fpc' = "done"
  /\ UNCHANGED <<fn, argA, argB, minHeap, visit, vpos>>
  /\ UNCHANGED <<mvars, rvars>>

\* topNneighborsFromScores(argA, argB) step by step: h := &minHeap{} and the
\* range loop settles on an order of the keys
TopNRange ==
  /\ fpc = "call" /\ fn = "topNneighborsFromScores"
  /\ visit' \in Perms(DOMAIN argA)
  /\ minHeap' = <<>>
  /\ vpos' = 0
  /\ fpc' = "loop"
  /\ UNCHANGED <<fn, argA, argB, ret, panicked>>
  /\ UNCHANGED <<mvars, rvars>>

\* a range loop body that also replaces the lowest entry on a tie (>= for >)
TopNOffer_ReplacesOnTie ==
  /\ fpc = "loop" /\ ~panicked
  /\ vpos < Len(visit)
  /\ LET nb == [id |-> visit[vpos + 1], score |-> argA[visit[vpos + 1]]]
     IN  IF Len(minHeap) < argB
         THEN minHeap' = heapPush(minHeap, nb) /\ UNCHANGED panicked
         ELSE IF Len(minHeap) = 0
         THEN panicked' = TRUE /\ UNCHANGED minHeap
         ELSE IF ~RatLess(nb.score, minHeap[1].score)
         THEN minHeap' = heapPush(heapPop(minHeap)[1], nb) /\ UNCHANGED panicked
         ELSE UNCHANGED <<minHeap, panicked>>
  /\ vpos' = vpos + 1
  /\ UNCHANGED <<fn, argA, argB, ret, fpc, visit>>
  /\ UNCHANGED <<mvars, rvars>>

\* one round of "for id, sc := range scores": push while fewer than n are held,
\* else replace the root when sc > (*h)[0].score; (*h)[0] on an empty heap panics
TopNOffer ==
  /\ fpc = "loop" /\ ~panicked
  /\ vpos < Len(visit)
  /\ LET nb == [id |-> visit[vpos + 1], score |-> argA[visit[vpos + 1]]]
     IN  IF Len(minHeap) < argB
         THEN minHeap' = heapPush(minHeap, nb) /\ UNCHANGED panicked
         ELSE IF Len(minHeap) = 0
         THEN panicked' = TRUE /\ UNCHANGED minHeap
         ELSE IF RatLess(minHeap[1].score, nb.score)
         THEN minHeap' = heapPush(heapPop(minHeap)[1], nb) /\ UNCHANGED panicked
         ELSE UNCHANGED <<minHeap, panicked>>
  /\ vpos' = vpos + 1
  /\ UNCHANGED <<fn, argA, argB, ret, fpc, visit>>
  /\ UNCHANGED <<mvars, rvars>>

\* the range loop is over: res is filled from the back with heap.Pop, and returned
TopNDrain ==
  /\ fpc = "loop" /\ ~panicked
  /\ vpos >= Len(visit)
  /\ ret' = drain(minHeap)
  /\ minHeap' = <<>>
  /\ fpc' = "done"
  /\ UNCHANGED <<fn, argA, argB, visit, vpos, panicked>>
  /\ UNCHANGED <<mvars, rvars>>

NextFn ==
  \/ CallCosine
  \/ CallPearson
  \/ CallJaccard
  \/ CallCosineSimilarity
  \/ CallPearsonCorrelation
  \/ CallJaccardIndex
  \/ CallJaccardWeighted
  \/ CallTopN
  \/ TopNRange
  \/ TopNOffer
  \/ TopNDrain

\* no matrix builder is running
MatrixIdle ==
  /\ builder = "Jaccard" /\ users = <<>> /\ numWorkers = 0
  /\ similarity = <<>>
  /\ jobs = <<>> /\ jobsClosed = FALSE
  /\ results = <<>> /\ resultsClosed = FALSE
  /\ wg = 0 /\ mainpc = "idle" /\ spawned = 0 /\ res = <<>> /\ mu = FALSE
  /\ wpc = <<>> /\ wres = <<>>
  /\ ppc = "unborn" /\ prodI = 0 /\ prodJ = 0 /\ cpc = "unborn"
  /\ sent = <<>> /\ taken = <<>> /\ applied = <<>> /\ writers = {}

\* no recommender is running
RecIdle ==
  /\ call = "none" /\ ds = <<>> /\ user = 0 /\ topK = 0 /\ metric = "JaccardSim"
  /\ neighborK = 0 /\ workers = 0 /\ rpc = "idle"
  /\ candidates = <<>> /\ cidx = 0 /\ scores = <<>> /\ result = <<>>
  /\ userSims = <<>> /\ neighbors = <<>>
  /\ gpc = <<>> /\ gslice = <<>> /\ gpos = <<>> /\ partial = <<>> /\ out = <<>> /\ merged = 0
  /\ avg = NoAvg

\* no metric call is under way
FnIdle ==
  /\ fn = "none" /\ argA = <<>> /\ argB = <<>> /\ ret = <<>> /\ fpc = "idle"
  /\ minHeap = <<>> /\ visit = <<>> /\ vpos = 0

\* a builder has been called and nothing else
Init == InitMatrix /\ RecIdle /\ FnIdle

\* a recommender has been called and nothing else
RecInit == InitRec /\ MatrixIdle /\ FnIdle

\* a call of a concurrent matrix builder
Spec == Init /\ [][NextMatrix]_vars

\* a call of a recommender
RecSpec == RecInit /\ [][NextRec]_vars

\* a metric or the selector is called and nothing else
FnInit == InitFn /\ MatrixIdle /\ RecIdle

\* a call of a metric or of topNneighborsFromScores
FnSpec == FnInit /\ [][NextFn]_vars

\* a builder or a recommender has been called
ParInit == Init \/ RecInit

NextPar == NextMatrix \/ NextRec

\* a call of a concurrent matrix builder or of a recommender
ParSpec == ParInit /\ [][NextPar]_vars

\* a call of a concurrent matrix builder under fair scheduling: a goroutine
\* that can run is not left waiting for ever
FairSpec == Spec /\ WF_vars(NextMatrix)

\* ------------------------------------------------------------ the claims
\* the builder has returned
Returned == mainpc = "done"

\* every goroutine of the builder has finished
AllFinished ==
  /\ Returned
  /\ ppc = "done" /\ jobsClosed
  /\ cpc = "done" /\ resultsClosed
  /\ \A w \in Workers : wpc[w] = "done"

\* m is a len x len matrix, symmetric, with 1.0 on the diagonal
SquareSymmetricUnit(m, len) ==
  /\ DOMAIN m = 0..(len - 1)
  /\ \A i \in 0..(len - 1) : DOMAIN m[i] = 0..(len - 1)
  /\ \A i, j \in 0..(len - 1) : m[i][j] = m[j][i]
  /\ \A i \in 0..(len - 1) : m[i][i] = One

\* C1: for numWorkers >= 1 the matrix a concurrent builder returns equals, entry
\* for entry, the matrix of the sequential builder on the same entities
C1_ConcurrentEqualsSequential ==
  (Returned /\ numWorkers >= 1) => similarity = Sequential(builder, users)

\* a builder returned a 3 x 3 matrix computed by two workers, with a non-zero score
C1_Witness ==
  /\ Returned /\ n = 3 /\ numWorkers = 2
  /\ Len(taken[<<0, 1>>]) = 1 /\ Len(taken[<<1, 2>>]) = 1
  /\ taken[<<0, 1>>] # taken[<<1, 2>>]
  /\ similarity[0][1] # Zero

\* C2: for numWorkers >= 1 no pair is ever sent, received or applied twice, and at
\* the return every pair i < j has been sent once, received by one worker and
\* applied once, and nothing else has
C2_EveryPairExactlyOnce ==
  /\ \A p \in Idx \X Idx : sent[p] <= 1 /\ Len(taken[p]) <= 1 /\ applied[p] <= 1
  /\ (Returned /\ numWorkers >= 1) =>
       \A p \in Idx \X Idx :
         IF p[1] < p[2]
         THEN sent[p] = 1 /\ Len(taken[p]) = 1 /\ applied[p] = 1
         ELSE sent[p] = 0 /\ Len(taken[p]) = 0 /\ applied[p] = 0

\* a builder returned after its three pairs were shared between two workers,
\* the later pair received by the worker that did not take the first
C2_Witness ==
  /\ Returned /\ n = 3 /\ numWorkers = 2
  /\ taken[<<0, 1>>] = <<1>> /\ taken[<<0, 2>>] = <<0>> /\ taken[<<1, 2>>] = <<1>>
  /\ applied[<<0, 1>>] = 1 /\ applied[<<0, 2>>] = 1 /\ applied[<<1, 2>>] = 1

\* C3: under fair scheduling a call with numWorkers >= 1 ends with every goroutine
\* finished (jobs closed, every worker exited, results closed, the collector
\* returned), and the collector never returns before the workers have finished
C3_Terminates ==
  /\ (numWorkers >= 1) ~> AllFinished
  /\ [](Returned => (resultsClosed /\ \A w \in Workers : wpc[w] = "done"))

\* a call with more workers than pairs (two entities, two workers) has ended, one
\* worker having received nothing
C3_Witness ==
  /\ AllFinished /\ n = 2 /\ numWorkers = 2 /\ numWorkers > totalComparisons
  /\ applied[<<0, 1>>] = 1

\* the entries of similarity that differ from those of m
Changed(m, m2) == {p \in Idx \X Idx : m[p[1]][p[2]] # m2[p[1]][p[2]]}

\* C4: the matrix is written by the collector alone: no other goroutine ever
\* writes it, every change of it is the collector's write of res at its write
\* position, and between the write of M[i][j] and the write of M[j][i] of one
\* result the collector holds the mutex and the same result
C4_SingleWriter ==
  /\ [](writers \subseteq {"main"})
  /\ [][(mainpc # "alloc" /\ similarity' # similarity) =>
          \/ /\ mainpc = "writeIJ" /\ mainpc' = "writeJI" /\ mu /\ res' = res
             /\ Changed(similarity, similarity') = {<<res.i, res.j>>}
          \/ /\ mainpc = "writeJI" /\ mainpc' = "unlock" /\ mu /\ res' = res
             /\ Changed(similarity, similarity') = {<<res.j, res.i>>}]_vars
  /\ [][(mainpc = "writeJI" /\ mainpc' # "writeJI") =>
          similarity' = SetEntry(similarity, res.j, res.i, res.sim)]_vars

\* the collector is between its two writes of one result while a worker holds
\* another result and a third result waits in the channel
C4_Witness ==
  /\ mainpc = "writeJI" /\ numWorkers = 2
  /\ similarity[res.i][res.j] = res.sim /\ res.sim # Zero
  /\ \E w \in Workers : wpc[w] = "send"
  /\ results # <<>>

\* C5: the matrix returned by a concurrent builder (numWorkers >= 1) and the
\* matrix of the sequential builder are n x n, symmetric, with 1.0 on the diagonal
C5_SquareSymmetricUnitDiagonal ==
  /\ (Returned /\ numWorkers >= 1) => SquareSymmetricUnit(similarity, n)
  /\ SquareSymmetricUnit(Sequential(builder, users), n)

\* a builder returned a 3 x 3 matrix with two different off-diagonal scores
C5_Witness ==
  /\ Returned /\ n = 3 /\ numWorkers >= 1
  /\ similarity[0][1] # Zero /\ similarity[1][2] # similarity[0][1]
  /\ similarity[1][0] = similarity[0][1]

\* the slices handed to goroutines 0 .. k-1, one after the other
RECURSIVE ConcatSlices(_)
ConcatSlices(k) == IF k = 0 THEN <<>> ELSE ConcatSlices(k - 1) \o gslice[k - 1]

\* ds is a dataset LoadDataset can build: a user it knows has rated something
Loadable == \A u \in DOMAIN ds : DOMAIN ds[u] # {}

\* RecommendItemBasedParallel, called for a user of a loadable dataset, is past
\* its spawn loop
Spawned ==
  /\ call = "ItemBasedParallel" /\ rpc \in {"merge", "done"}
  /\ user \in DOMAIN ds /\ Loadable

\* the scores RecommendItemBased can give candidate itemV (one per visiting order
\* of the rated items)
SeqScoresOf(itemV) ==
  {seqScoreItem(userRatings, itemIndex, itemV, metric, neighborK, order) :
     order \in Perms(DOMAIN userRatings)}

\* C6: once RecommendItemBasedParallel has started its goroutines, their slices,
\* one after the other, are the whole candidate list (contiguous, disjoint, the
\* last one taking the remainder), so every candidate is scored by one goroutine
C6_SlicesCoverCandidates ==
  Spawned =>
    /\ ConcatSlices(workers) = candidates
    /\ rpc = "done" => DOMAIN scores = Unrated

\* C7: the score map RecommendItemBasedParallel returns from is the one of
\* RecommendItemBased on the same arguments: a score for every unrated item,
\* each a score RecommendItemBased gives that item
C7_ParallelEqualsSequential ==
  (call = "ItemBasedParallel" /\ rpc = "done" /\ user \in DOMAIN ds /\ Loadable) =>
    /\ DOMAIN scores = Unrated
    /\ \A itemV \in Unrated : scores[itemV] \in SeqScoresOf(itemV)

\* C8: RecommendItemBasedParallel with more workers than candidates (neighborK >= 1,
\* where scoreItem cannot fault) never faults, gives the surplus goroutines an
\* empty slice, scores every candidate, and returns nothing for no candidate
C8_MoreWorkersThanCandidates ==
  (call = "ItemBasedParallel" /\ rpc # "start" /\ user \in DOMAIN ds /\ Loadable
     /\ neighborK >= 1 /\ workers > Len(candidates)) =>
    /\ ~panicked
    /\ rpc = "done" => (DOMAIN scores = Unrated /\ (candidates = <<>> => result = <<>>))

\* C9: with neighborK <= 0 no caller of topNneighborsFromScores faults: the call
\* goes on with every scored entry as a neighbour
C9_NeighborKZeroUsesAll ==
  (neighborK <= 0 /\ Loadable) => ~panicked

RECURSIVE TopScores(_, _)
TopScores(sc, k) ==
  IF k <= 0 \/ DOMAIN sc = {} THEN <<>>
  ELSE LET best == CHOOSE id \in DOMAIN sc :
                     \A o \in DOMAIN sc : ~RatLess(sc[id], sc[o])
       IN  <<sc[best]>> \o TopScores([id \in DOMAIN sc \ {best} |-> sc[id]], k - 1)

\* C11: for n >= 1 and any visiting order of the score map, topNneighborsFromScores
\* returns without a fault min(n, number of entries) entries of the map, no entry
\* twice, in non-increasing score order, and their scores are the n highest
\* scores of the map, counted with their multiplicity
C11_TopNIsTheNHighest ==
  (fn = "topNneighborsFromScores" /\ fpc = "done" /\ argB >= 1) =>
    /\ ~panicked
    /\ Len(ret) = min(argB, Cardinality(DOMAIN argA))
    /\ \A k \in 1..(Len(ret) - 1) : ~RatLess(ret[k].score, ret[k + 1].score)
    /\ \A k \in 1..Len(ret) : ret[k].id \in DOMAIN argA /\ ret[k].score = argA[ret[k].id]
    /\ \A k, l \in 1..Len(ret) : k # l => ret[k].id # ret[l].id
    /\ [k \in 1..Len(ret) |-> ret[k].score] = TopScores(argA, argB)

\* the selector kept two of three entries with three different scores, the
\* lowest score being the one left out
C11_Witness ==
  /\ fn = "topNneighborsFromScores" /\ fpc = "done" /\ argB = 2
  /\ Cardinality(DOMAIN argA) = 3
  /\ Len(ret) = 2 /\ ret[1].score = One /\ ret[2].score = Rat(1, 2)
  /\ \E id \in DOMAIN argA : argA[id] = Zero

\* the list is in non-increasing Score order
NonIncreasing(list) ==
  \A k \in 1..(Len(list) - 1) : ~RatLess(list[k].Score, list[k + 1].Score)

\* C12: for every neighborK >= 0, RecommendItemBased and RecommendItemBasedParallel,
\* called for a user of a loadable dataset, return (they do not fault) and return
\* min(topK, number of unrated items) entries in non-increasing score order
C12_ReturnsMinTopKUnrated ==
  (call \in {"ItemBased", "ItemBasedParallel"} /\ user \in DOMAIN ds /\ Loadable) =>
    /\ ~panicked
    /\ rpc = "done" =>
         /\ Len(result) = min(topK, Cardinality(Unrated))
         /\ NonIncreasing(result)

\* C13: in RecommendItemBased, scoreItem and RecommendUserBased, a weighted average
\* whose den ends at 0 (no contributing neighbour, or only similarities 0) does not
\* divide, and the candidate is recorded in the score map (the goroutine's partial
\* map in the parallel recommender) with the score 0
C13_ZeroDenominatorScoresZero ==
  [][(avg' # avg /\ avg'.den = Zero) =>
       /\ ~avg'.divided
       /\ IF call = "ItemBasedParallel"
          THEN \E w \in RecWorkers :
                 /\ partial'[w] # partial[w]
                 /\ avg'.item \in DOMAIN partial'[w]
                 /\ partial'[w][avg'.item] = Zero
          ELSE /\ avg'.item \in DOMAIN scores'
               /\ scores'[avg'.item] = Zero]_vars

\* the parallel recommender returned a candidate whose weighted average had den 0
\* (its only neighbour has similarity 0) with the score 0
C13_Witness ==
  /\ call = "ItemBasedParallel" /\ rpc = "done" /\ Loadable
  /\ avg.item # 0 /\ avg.den = Zero /\ ~avg.divided
  /\ avg.item \in DOMAIN scores /\ scores[avg.item] = Zero
  /\ \E k \in 1..Len(result) : result[k].MovieID = avg.item

\* the keys the two arguments of a metric share
Shared == {k \in DOMAIN argA : k \in DOMAIN argB}

\* the value 0 as the metric f returns it
ZeroOf(f) ==
  IF f \in {"Jaccard", "jaccardIndex", "JaccardWeighted"} THEN Zero ELSE RootZero

JaccardOf(f, a, b) == IF f = "Jaccard" THEN Jaccard(a, b) ELSE jaccardIndex(a, b)

\* C15: the value Jaccard and jaccardIndex return for (a, b) lies in [0, 1], is the
\* value returned for (b, a), is 1 when b is a and a has a key, and is 0 when
\* both are empty
C15_JaccardProperties ==
  (fn \in {"Jaccard", "jaccardIndex"} /\ fpc = "done") =>
    /\ ~RatLess(ret, Zero) /\ ~RatLess(One, ret)
    /\ ret = JaccardOf(fn, argB, argA)
    /\ (argA = argB /\ DOMAIN argA # {}) => ret = One
    /\ (DOMAIN argA = {} /\ DOMAIN argB = {}) => ret = Zero

\* Jaccard returned 1 for a vector of two keys, one of weight 0, against itself
C15_Witness ==
  /\ fn = "Jaccard" /\ fpc = "done"
  /\ argA = argB /\ DOMAIN argA = {1, 2} /\ argA[1] = Zero /\ argA[2] = One
  /\ ret = One

\* Cosine or cosineSimilarity, as named by f
CosineOf(f, a, b) == IF f = "Cosine" THEN Cosine(a, b) ELSE cosineSimilarity(a, b)

\* the vector a, an argument of f, stores a weight that is not 0
HasWeight(f, a) ==
  IF f = "Cosine" THEN \E k \in DOMAIN a : a[k] # Zero
  ELSE \E k \in DOMAIN a : a[k].PlaytimeNorm # 0 \/ a[k].Rating # 0

\* C16 as claimed: the value Cosine and cosineSimilarity return for (a, b) is the
\* value returned for (b, a), and is 1 when b is a and a has at least one key
C16_CosineSymmetricUnitSelf ==
  (fn \in {"Cosine", "cosineSimilarity"} /\ fpc = "done") =>
    /\ ret = CosineOf(fn, argB, argA)
    /\ (argA = argB /\ DOMAIN argA # {}) => ret = RootOne

\* C16 as amended: the value Cosine and cosineSimilarity return for (a, b) is the
\* value returned for (b, a); on (a, a) it is 1 when a stores a weight that is not
\* 0, and 0 when a stores none (every stored weight 0, or no key)
C16_CosineSymmetricUnitSelfNonZero ==
  (fn \in {"Cosine", "cosineSimilarity"} /\ fpc = "done") =>
    /\ ret = CosineOf(fn, argB, argA)
    /\ argA = argB => ret = IF HasWeight(fn, argA) THEN RootOne ELSE RootZero

\* Cosine returned 1 for a vector of two different non-zero weights against itself
C16_Witness ==
  /\ fn = "Cosine" /\ fpc = "done"
  /\ argA = argB /\ DOMAIN argA = {1, 2} /\ argA[1] = Rat(1, 2) /\ argA[2] = One
  /\ ret = RootOne

\* the items a returned list names
Returned_Items == {result[k].MovieID : k \in 1..Len(result)}

\* C17: a recommender called for a user of a loadable dataset returns no item the
\* user has rated; the item-based recommenders return with a score for exactly
\* the items of the index the user has not rated, RecommendUserBased with a score
\* for exactly the unrated items that a selected neighbour rated
C17_ScoresExactlyTheUnrated ==
  (rpc = "done" /\ user \in DOMAIN ds /\ Loadable) =>
    /\ \A it \in Returned_Items : it \notin DOMAIN userRatings
    /\ Returned_Items \subseteq DOMAIN scores
    /\ call \in {"ItemBased", "ItemBasedParallel"} => DOMAIN scores = Unrated
    /\ (call = "UserBased" /\ Len(neighbors) > 0) => DOMAIN scores = UBCandidates(neighbors)

\* the candidates of goroutine w's slice
SliceItems(w) == {gslice[w][i] : i \in 1..Len(gslice[w])}

\* C18 as claimed: in RecommendItemBasedParallel every write to scores happens
\* after the last goroutine has sent its partial
C18_MergeAfterAllWorkers ==
  [][(call = "ItemBasedParallel" /\ scores' # scores) =>
       \A w \in RecWorkers : gpc[w] = "done"]_vars

\* C18 as amended: in RecommendItemBasedParallel a partial is merged into scores
\* only after the goroutine that built it has completed its slice and sent it
\* (other goroutines may still be running): every partial in the channel is the
\* complete partial of a finished goroutine, scores is written only by the merge
\* loop with the partial it receives, and the function returns only after
\* `workers` partials have been merged and every goroutine has finished
C18_MergeOnlyCompletedPartials ==
  /\ [](call = "ItemBasedParallel" =>
         \A k \in 1..Len(out) :
           \E w \in RecWorkers :
             gpc[w] = "done" /\ out[k] = partial[w] /\ DOMAIN partial[w] = SliceItems(w))
  /\ [][(call = "ItemBasedParallel" /\ scores' # scores) =>
          /\ rpc = "merge" /\ out # <<>>
          /\ scores' = Head(out) @@ scores
          /\ merged' = merged + 1]_vars
  /\ []((call = "ItemBasedParallel" /\ rpc = "done" /\ user \in DOMAIN ds) =>
         /\ merged = workers /\ out = <<>>
         /\ \A w \in RecWorkers : gpc[w] = "done")

\* the caller has merged the partial of one goroutine into scores while another
\* goroutine is still scoring its slice
C18_Witness ==
  /\ call = "ItemBasedParallel" /\ rpc = "merge" /\ merged >= 1
  /\ DOMAIN scores # {}
  /\ \E w \in RecWorkers : gpc[w] = "run" /\ gpos[w] < Len(gslice[w])

\* C19: no step of a call changes the dataset (hence the item index and the
\* target's rating vector built from it), the target or the entity list; a step
\* of a builder's worker leaves the matrix alone; a goroutine's partial map
\* changes only by that goroutine's own scoring step, which changes no other
\* partial, nor scores, nor the channel; and while a goroutine runs nothing of
\* its partial is in the channel or in scores
C19_WorkersShareNothingMutable ==
  /\ [][ds' = ds /\ user' = user /\ users' = users /\ builder' = builder]_vars
  /\ [][wpc' # wpc => similarity' = similarity]_vars
  /\ [][\A w \in DOMAIN partial :
          partial'[w] # partial[w] =>
            /\ gpc[w] = "run" /\ gpc'[w] = "run" /\ gpos'[w] = gpos[w] + 1
            /\ \A v \in DOMAIN partial \ {w} : partial'[v] = partial[v]
            /\ scores' = scores /\ out' = out]_vars
  /\ [](\A w \in DOMAIN partial :
          gpc[w] = "run" =>
            /\ DOMAIN partial[w] \cap DOMAIN scores = {}
            /\ \A k \in 1..Len(out) : DOMAIN partial[w] \cap DOMAIN out[k] = {})

\* two goroutines are running, each with a score in its own partial map, while
\* a third has sent its partial
C19_Witness ==
  /\ call = "ItemBasedParallel" /\ workers = 3
  /\ gpc[0] = "run" /\ gpc[1] = "run" /\ gpc[2] = "done"
  /\ DOMAIN partial[0] # {} /\ DOMAIN partial[1] # {}
  /\ DOMAIN partial[0] \cap DOMAIN partial[1] = {}
  /\ out # <<>>

\* C20: in a concurrent builder no goroutine is started before the allocation
\* loop has set the diagonal; from then on every M[i][i] is 1.0 in every state;
\* and no job or result, in a channel or in a goroutine's hands, has i = j
C20_DiagonalPresetNeverRevisited ==
  /\ mainpc = "alloc" =>
       /\ spawned = 0 /\ ppc = "unborn" /\ cpc = "unborn"
       /\ \A w \in Workers : wpc[w] = "unborn"
  /\ mainpc # "alloc" => \A i \in Idx : similarity[i][i] = One
  /\ \A k \in 1..Len(jobs) : jobs[k].i # jobs[k].j
  /\ \A k \in 1..Len(results) : results[k].i # results[k].j
  /\ \A w \in Workers : wpc[w] = "send" => wres[w].i # wres[w].j
  /\ mainpc \in {"lock", "writeIJ", "writeJI", "unlock"} => res.i # res.j
  /\ \A i \in Idx : sent[<<i, i>>] = 0 /\ applied[<<i, i>>] = 0

\* a builder on three entities is under way: a job waits in its channel, a worker
\* holds a result, another result waits for the collector, one is already
\* applied, and the diagonal is 1.0
C20_Witness ==
  /\ n = 3 /\ numWorkers >= 1 /\ mainpc = "recv"
  /\ \E p \in Idx \X Idx : applied[p] = 1
  /\ (Len(jobs) >= 1 \/ Len(results) >= 1)
  /\ \E w \in Workers : wpc[w] = "send"
  /\ \A i \in Idx : similarity[i][i] = One

\* C21: once a concurrent builder called with numWorkers >= 1 has made its
\* channels, their capacity is min(n(n-1)/2, 100 * numWorkers) and is at least 1,
\* and neither channel ever buffers more than that
C21_QueuesBoundedAtLeastOne ==
  (numWorkers >= 1 /\ mainpc \notin {"alloc", "idle"}) =>
    /\ bufferSize = min((n * (n - 1)) \div 2, 100 * numWorkers)
    /\ bufferSize >= 1
    /\ Len(jobs) <= bufferSize
    /\ Len(results) <= bufferSize

\* the users of the dataset other than the target
OtherUsers == DOMAIN ds \ {user}

\* C22: in RecommendUserBased every other user, whatever its similarity to the
\* target, is recorded in userSims with that similarity, and the neighbours
\* selected are min(neighborK, number of other users) of them: the 0.05 test
\* removes nobody
C22_ThresholdHasNoEffect ==
  (call = "UserBased" /\ user \in DOMAIN ds /\ rpc # "start") =>
    /\ DOMAIN userSims = OtherUsers
    /\ \A o \in OtherUsers : userSims[o] = simBetween(userRatings, ds[o], metric)
    /\ rpc \in {"score", "done"} =>
         /\ Len(neighbors) = min(neighborK, Cardinality(OtherUsers))
         /\ \A k \in 1..Len(neighbors) :
              /\ neighbors[k].id \in OtherUsers
              /\ neighbors[k].score = userSims[neighbors[k].id]

\* a user whose similarity is below the threshold was selected as a neighbour
\* and its items were recommended
C22_Witness ==
  /\ call = "UserBased" /\ rpc = "done" /\ ~panicked
  /\ user \in DOMAIN ds
  /\ result # <<>>
  /\ \E k \in 1..Len(neighbors) : RatLess(neighbors[k].score, Threshold)

\* the entries a heap holds
Held(h) == {h[k] : k \in 1..Len(h)}

\* C23: while topNneighborsFromScores streams the candidates with n >= 1 the heap
\* never holds more than n entries and its root is a lowest one; a candidate
\* offered while fewer than n are held is inserted; a candidate offered while n
\* are held replaces the root if its score is strictly greater and else, a tie
\* included, leaves the heap as it is
C23_HeapBoundedStrictReplace ==
  /\ []((fn = "topNneighborsFromScores" /\ argB >= 1) =>
          /\ Len(minHeap) <= argB
          /\ \A e \in Held(minHeap) : ~RatLess(e.score, minHeap[1].score))
  /\ [][(fn = "topNneighborsFromScores" /\ argB >= 1 /\ vpos' = vpos + 1) =>
          LET nb == [id |-> visit[vpos + 1], score |-> argA[visit[vpos + 1]]]
          IN  /\ Len(minHeap) < argB =>
                   /\ Held(minHeap') = Held(minHeap) \cup {nb}
                   /\ Len(minHeap') = Len(minHeap) + 1
              /\ Len(minHeap) = argB =>
                   IF RatLess(minHeap[1].score, nb.score)
                   THEN /\ Held(minHeap') = (Held(minHeap) \ {minHeap[1]}) \cup {nb}
                        /\ Len(minHeap') = argB
                   ELSE minHeap' = minHeap]_vars

\* the candidate offered last tied the lowest of the two entries of a full heap
\* and is not held
C23_Witness ==
  /\ fn = "topNneighborsFromScores" /\ fpc = "loop" /\ ~panicked
  /\ argB = 2 /\ Len(minHeap) = 2
  /\ vpos >= 3
  /\ argA[visit[vpos]] = minHeap[1].score
  /\ \A e \in Held(minHeap) : e.id # visit[vpos]

\* C24: in a concurrent builder called with numWorkers >= 1 nothing is ever sent
\* on a closed channel; jobs is closed by the producer alone and only after its
\* last send, results by the closer alone and only after every worker has run
\* wg.Done(), its sends behind it
C24_NoSendOnClosedChannel ==
  /\ [](numWorkers >= 1 =>
          /\ ~panicked
          /\ jobsClosed => (ppc = "done" /\ \A i, j \in Idx : i < j => sent[<<i, j>>] = 1)
          /\ resultsClosed =>
               /\ wg = 0 /\ spawned = numWorkers
               /\ \A w \in Workers : wpc[w] = "done")
  /\ [][numWorkers >= 1 =>
          /\ jobsClosed' # jobsClosed => (ppc = "send" /\ ppc' = "done" /\ prodI >= n)
          /\ resultsClosed' # resultsClosed => (cpc = "close" /\ cpc' = "done")]_vars

\* both channels are closed after three jobs went through two workers, the last
\* results still buffered
C24_Witness ==
  /\ numWorkers = 2 /\ n = 3 /\ ~panicked
  /\ jobsClosed /\ resultsClosed
  /\ results # <<>>
  /\ \A i, j \in Idx : i < j => Len(taken[<<i, j>>]) = 1
  /\ taken[<<0, 1>>] # taken[<<1, 2>>]

\* C25: in RecommendItemBasedParallel the partial maps of different goroutines
\* have no key in common, nor has a partial waiting in out a key in common with
\* scores or with another partial in out; a merge changes no entry scores
\* already has; so the scores returned from are the union of the partials,
\* whatever the order of arrival
C25_PartialsDisjoint ==
  /\ [](call = "ItemBasedParallel" =>
          /\ \A w, v \in DOMAIN partial :
               w # v => DOMAIN partial[w] \cap DOMAIN partial[v] = {}
          /\ \A k \in 1..Len(out) :
               /\ rpc = "merge" => DOMAIN out[k] \cap DOMAIN scores = {}
               /\ \A m \in 1..Len(out) : m # k => DOMAIN out[k] \cap DOMAIN out[m] = {}
          /\ rpc = "done" =>
               /\ DOMAIN scores = UNION {DOMAIN partial[w] : w \in DOMAIN partial}
               /\ \A w \in DOMAIN partial : \A it \in DOMAIN partial[w] :
                    scores[it] = partial[w][it])
  /\ [][(call = "ItemBasedParallel" /\ rpc = "merge" /\ scores' # scores) =>
          /\ DOMAIN scores \subseteq DOMAIN scores'
          /\ \A it \in DOMAIN scores : scores'[it] = scores[it]]_vars

\* the call returned after merging the non-empty partials of two goroutines
C25_Witness ==
  /\ call = "ItemBasedParallel" /\ rpc = "done" /\ ~panicked
  /\ merged = workers /\ workers >= 2
  /\ \E w, v \in DOMAIN partial :
       w # v /\ DOMAIN partial[w] # {} /\ DOMAIN partial[v] # {}
  /\ Len(result) >= 2

\* RecommendItemBasedParallel is past its candidate list, with at least one
\* worker and no more workers than candidates
WorkersFit ==
  /\ call = "ItemBasedParallel" /\ user \in DOMAIN ds /\ rpc # "start"
  /\ 1 <= workers /\ workers <= Len(candidates)

\* C26: RecommendItemBasedParallel with 1 <= workers <= number of candidates
\* starts exactly `workers` goroutines, each sends one partial and finds room in
\* out when it is ready to send, the caller merges exactly `workers` partials,
\* and the call gets to its return: nothing faults, and while the caller waits
\* on an empty out some goroutine can still step, so that a fair scheduler
\* brings the call to its return with every goroutine finished
C26_EveryWorkerSendsOnceAndCallReturns ==
  WorkersFit =>
    /\ ~panicked
    /\ cidx <= workers /\ merged <= workers /\ Len(out) <= workers
    /\ rpc \in {"merge", "done"} => cidx = workers
    /\ Cardinality({w \in RecWorkers : gpc[w] = "done"}) = Len(out) + merged
    /\ \A w \in RecWorkers :
         (gpc[w] = "run" /\ gpos[w] >= Len(gslice[w])) => Len(out) < workers
    /\ (rpc = "merge" /\ merged < workers /\ out = <<>>) =>
         \E w \in RecWorkers : gpc[w] = "run"
    /\ rpc = "done" =>
         (merged = workers /\ out = <<>> /\ \A w \in RecWorkers : gpc[w] = "done")

\* C27: a concurrent builder called with numWorkers = 0 on two or more entities
\* returns under fair scheduling; its job channel never buffers a job, the
\* producer never gets past its first send, no job is sent, no result is made, and
\* the matrix returned has 1.0 on the diagonal and 0 elsewhere, the producer
\* still blocked
C27_ZeroWorkersReturnsIdentity ==
  /\ (numWorkers = 0 /\ n >= 2) ~> Returned
  /\ []((numWorkers = 0 /\ n >= 2) =>
          /\ ~panicked
          /\ jobs = <<>> /\ ~jobsClosed /\ results = <<>>
          /\ \A i, j \in Idx : sent[<<i, j>>] = 0
          /\ ppc \in {"unborn", "send"}
          /\ ppc = "send" => (prodI = 0 /\ prodJ = 1)
          /\ Returned => (resultsClosed /\ ppc = "send" /\ similarity = DiagMatrix(n)))

\* a builder without workers has returned the identity matrix for three
\* entities, its producer still at its first send
C27_Witness ==
  /\ numWorkers = 0 /\ n = 3
  /\ Returned /\ cpc = "done"
  /\ ppc = "send" /\ prodI = 0 /\ prodJ = 1
  /\ similarity = DiagMatrix(3)

====
